---- MODULE Spec2Model ----
(***************************************************************************)
(* The rotating log sink of package dy (RotateWriter): concurrent callers  *)
(* of Write, ForceRotate and Close serialised by rw.mu, the rotation       *)
(* procedure, and the detached compressFile and cleanupOldBackups          *)
(* goroutines, over a small file system of paths and inodes. And the       *)
(* loggers derived with WithContext, WithFields and WithoutContext, their  *)
(* contexts being slices over backing arrays; the options New applies to a *)
(* Logger, WithRotateWriter among them; and TraceFunction with the         *)
(* closures it returns.                                                    *)
(***************************************************************************)
EXTENDS Integers, Sequences, FiniteSets, Bags, TLC

\* Bounds of the model.
MaxTime == 2
TicksPerSec == 2
MaxLen == 2
MaxOps == 3
MaxFaults == 1
MaxRotations == 2
MaxLoggers == 4
MaxTraces == 3
MaxOptions == 3

Procs == {"p1", "p2"}
NoProc == "free"

VARIABLES
    cfg,        \* maxSize, maxBackups, backupInterval, compress (fixed by the options)
    file,       \* rw.file: the handle, NoHandle for nil
    size,       \* rw.size
    lastRotate, \* rw.lastRotate
    mu,         \* rw.mu: the proc that holds it, or NoProc
    pc,         \* each caller's position
    op,         \* each caller's call: its arguments and rotate's locals
    last,       \* the call that returned last: its kind, payload length and (n, err)
    dir,        \* file system: path -> inode number, 0 when the path does not exist
    inodes,     \* file system: inode number -> [data, mtime]
    now,        \* the clock, in ticks
    comp,       \* running compressFile goroutines (a bag)
    clean,      \* running cleanupOldBackups goroutines (a bag)
    crashed,    \* the process died of a panic in a goroutine
    nOps,       \* calls issued so far
    faults,     \* I/O failures injected so far
    acked,      \* per call id: the byte count a Write reported as written
    made,       \* per ForceRotate that renamed: the backup's stamp and the content renamed
    loggers,    \* the Loggers made so far: context, and how each was derived
    arrays,     \* the backing arrays of the Fields slices
    logger,     \* one Logger: out, level, traceEnabled, nestingLevel, closer
    traces,     \* the TraceFunction calls on it: where each is, or its closure
    nest0,      \* the nestingLevel the logger was made with
    writers,    \* the RotateWriters made by WithRotateWriter: "open" or "closed"
    applied     \* the options applied to the logger so far, with their outcome

vars == <<cfg, file, size, lastRotate, mu, pc, op, last, dir, inodes, now,
          comp, clean, crashed, nOps, faults, acked, made, loggers, arrays,
          logger, traces, nest0, writers, applied>>

rwVars == <<cfg, file, size, lastRotate, mu, pc, op, last, dir, inodes, now,
            comp, clean, crashed, nOps, faults, acked, made>>
ctxVars == <<loggers, arrays>>
lgVars == <<logger, traces, nest0, writers, applied>>

sinkVars == <<file, size, lastRotate>>
fsVars == <<dir, inodes>>
bgVars == <<comp, clean, crashed>>

----------------------------------------------------------------------------
\* Paths: the active file, and the backups basePath.<timestamp>[.gz].

Base == [kind |-> "base", ts |-> 0]
Bak(t) == [kind |-> "bak", ts |-> t]
Gz(t) == [kind |-> "gz", ts |-> t]

\* time.Now().Format("20060102-150405"): the clock cut to whole seconds.
Format(t) == t \div TicksPerSec

Stamps == 0..Format(MaxTime)
BackupPaths == {Bak(t) : t \in Stamps} \cup {Gz(t) : t \in Stamps}
Paths == {Base} \cup BackupPaths

\* The backup names in lexicographic order, as filepath.Glob lists them:
\* base.T0, base.T0.gz, base.T1, base.T1.gz, ...
PathSeq ==
    [i \in 1..(2 * Cardinality(Stamps)) |->
        IF i % 2 = 1 THEN Bak((i - 1) \div 2) ELSE Gz((i - 1) \div 2)]

Exists(path) == dir[path] # 0
DataAt(path) == inodes[dir[path]].data
Linked == {q \in BackupPaths : Exists(q)}

NoHandle == [ino |-> 0, open |-> FALSE]
NoOp == [kind |-> "none", len |-> 0, id |-> 0, wasNil |-> FALSE,
         renamed |-> FALSE, bakIno |-> 0, before |-> {}]
NoLast == [kind |-> "none", len |-> 0, wasNil |-> FALSE, renamed |-> FALSE,
           n |-> 0, err |-> "none"]

Max(a, b) == IF a >= b THEN a ELSE b

\* The payload of call id: n bytes, each tagged with the call.
Payload(id, n) == [i \in 1..n |-> id]

\* Writing w at offset 0 of a file holding d (a fresh O_TRUNC handle).
WriteAt0(d, w) ==
    IF Len(w) >= Len(d) THEN w ELSE w \o SubSeq(d, Len(w) + 1, Len(d))

\* gzip: a header, the data, and a trailer that carries the data's length.
GzipHeader == <<0>>
GzipTrailer(d) == <<0 - (Len(d) + 1)>>
Gzip(d) == GzipHeader \o d \o GzipTrailer(d)
GzipValid(z) ==
    /\ Len(z) >= 2
    /\ z[1] = 0
    /\ z[Len(z)] = 0 - (Len(z) - 1)
Gunzip(z) == SubSeq(z, 2, Len(z) - 1)

----------------------------------------------------------------------------
\* Loggers and their contexts. A *LogContext is nil or points to a Fields
\* slice: a backing array (0 for the nil slice) and a length; the capacity
\* is the length of the array.

Keys == {"a", "b"}
Values == {1, 2}
ContextField(k, v) == [Key |-> k, Value |-> v]
ZeroField == [Key |-> "", Value |-> 0]

NilContext == [isNil |-> TRUE, arr |-> 0, len |-> 0]
EmptyContext == [isNil |-> FALSE, arr |-> 0, len |-> 0]

\* New(): no option sets the context, it is nil.
NewLogger == [context |-> NilContext, parent |-> 0, by |-> "New", key |-> ""]

\* c.Fields as a sequence, and cap(c.Fields), in the memory mem.
Fields(mem, c) == IF c.arr = 0 THEN <<>> ELSE SubSeq(mem[c.arr], 1, c.len)
Cap(mem, c) == IF c.arr = 0 THEN 0 ELSE Len(mem[c.arr])

\* A Clone that copies the slice header and shares the backing array.
SharedClone(mem, c) ==
    [mem |-> mem, ctx |-> [c EXCEPT !.isNil = FALSE]]

\* Clone: &LogContext{} for nil, else a new array of len(c.Fields) elements
\* and copy(clone.Fields, c.Fields).
Clone(mem, c) ==
    IF c.isNil THEN [mem |-> mem, ctx |-> EmptyContext]
    ELSE [mem |-> Append(mem, Fields(mem, c)),
          ctx |-> [isNil |-> FALSE, arr |-> Len(mem) + 1, len |-> c.len]]

\* append's new capacity when the array is full: twice the old one, at least 1.
Grown(n) == IF n = 0 THEN 1 ELSE 2 * n

\* Add: c.Fields = append(c.Fields, f): in place when there is room, else
\* into a new, larger array.
Add(mem, c, f) ==
    IF c.len < Cap(mem, c)
    THEN [mem |-> [mem EXCEPT ![c.arr][c.len + 1] = f],
          ctx |-> [c EXCEPT !.len = @ + 1]]
    ELSE [mem |-> Append(mem, [i \in 1..Grown(c.len) |->
                                  IF i <= c.len THEN Fields(mem, c)[i]
                                  ELSE IF i = c.len + 1 THEN f ELSE ZeroField]),
          ctx |-> [c EXCEPT !.arr = Len(mem) + 1, !.len = @ + 1]]

\* Remove: the first field with the key is overwritten with the last field
\* and the slice is cut by one; return.
Remove(mem, c, key) ==
    LET hits == {i \in 1..c.len : Fields(mem, c)[i].Key = key} IN
    IF c.isNil \/ hits = {} THEN [mem |-> mem, ctx |-> c]
    ELSE LET i == CHOOSE h \in hits : \A g \in hits : h <= g
         IN [mem |-> [mem EXCEPT ![c.arr][i] = mem[c.arr][c.len]],
             ctx |-> [c EXCEPT !.len = @ - 1]]

\* for k, v := range fields { child.context.Add(k, v) }, the keys coming in
\* the order ks.
RECURSIVE AddAll(_, _, _, _)
AddAll(mem, c, fields, ks) ==
    IF ks = <<>> THEN [mem |-> mem, ctx |-> c]
    ELSE LET a == Add(mem, c, ContextField(Head(ks), fields[Head(ks)]))
         IN AddAll(a.mem, a.ctx, fields, Tail(ks))

\* The maps WithFields is called with, and the orders range may take.
FieldMaps == UNION {[S -> {1}] : S \in SUBSET Keys}
Orders(S) == {ks \in UNION {[1..n -> S] : n \in {Cardinality(S)}} :
                 \A k \in S : \E i \in DOMAIN ks : ks[i] = k}

\* The child logger is handed to the caller.
Derived(i, by, key, r) ==
    /\ arrays' = r.mem
    /\ loggers' = Append(loggers, [context |-> r.ctx, parent |-> i, by |-> by,
                                    key |-> key])

\* l.WithContext(key, value): child.context = l.context.Clone(), then Add.
WithContext(i, k, v) ==
    /\ Len(loggers) < MaxLoggers
    /\ LET cl == Clone(arrays, loggers[i].context)
       IN Derived(i, "WithContext", k, Add(cl.mem, cl.ctx, ContextField(k, v)))
    /\ UNCHANGED <<rwVars, lgVars>>

\* l.WithFields(fields): the clone, then Add for every entry of the map.
WithFields(i, fields, ks) ==
    /\ Len(loggers) < MaxLoggers
    /\ LET cl == Clone(arrays, loggers[i].context)
       IN Derived(i, "WithFields", "", AddAll(cl.mem, cl.ctx, fields, ks))
    /\ UNCHANGED <<rwVars, lgVars>>

\* l.WithoutContext(key): the clone, then Remove(key).
WithoutContext(i, k) ==
    /\ Len(loggers) < MaxLoggers
    /\ LET cl == Clone(arrays, loggers[i].context)
       IN Derived(i, "WithoutContext", k, Remove(cl.mem, cl.ctx, k))
    /\ UNCHANGED <<rwVars, lgVars>>

----------------------------------------------------------------------------
\* One Logger: New and its options, TraceFunction and the closures it
\* returns, EnableTrace, DisableTrace and SetLevel.

DebugLevel == 0
InfoLevel == 1
FatalLevel == 4
Levels == DebugLevel..FatalLevel

\* An io.Writer: os.Stdout, os.Stderr, a caller's writer, nil, or the
\* RotateWriter number id.
Writer(w) == [w |-> w, id |-> 0]
Rotating(id) == [w |-> "RotateWriter", id |-> id]

\* New(): the Logger before any option is applied; no closer.
New ==
    [out |-> Writer("os.Stdout"), level |-> InfoLevel, traceEnabled |-> FALSE,
     nestingLevel |-> 0, closer |-> 0]

\* The guard of TraceFunction, read without l.mu: tracing is in effect when
\* traceEnabled is set and the level lets debug messages through.
Tracing(l) == ~(~l.traceEnabled \/ DebugLevel < l.level)

\* A position in traces.
Trace(at, flag) == [pc |-> at, enabled |-> flag]

\* TraceFunction up to its guard: with tracing not in effect it returns the
\* empty closure; else it goes on to take l.mu. The entry keeps what
\* traceEnabled was at this call.
TraceFunction ==
    /\ Len(traces) < MaxTraces
    /\ traces' = Append(traces,
                        Trace(IF Tracing(logger) THEN "lock" ELSE "empty",
                              logger.traceEnabled))
    /\ UNCHANGED <<rwVars, ctxVars, logger, nest0, writers, applied>>

\* An entry that leaves the nesting level as it is.
Level(n) == n

\* l.nestingLevel++
Nested(n) == n + 1

\* TraceFunction under l.mu: the nesting level goes up by one and the closure
\* that logs the exit is returned.
TraceEnter(i) ==
    /\ traces[i].pc = "lock"
    /\ logger' = [logger EXCEPT !.nestingLevel = Nested(@)]
    /\ traces' = [traces EXCEPT ![i].pc = "exit"]
    /\ UNCHANGED <<rwVars, ctxVars, nest0, writers, applied>>

\* currentLevel := l.nestingLevel - 1, and 0 when that is negative.
Unnested(n) == IF n - 1 < 0 THEN 0 ELSE n - 1

\* The returned closure is called: the empty one does nothing, the other
\* takes l.mu and lowers the nesting level.
TraceExit(i) ==
    /\ traces[i].pc \in {"empty", "exit"}
    /\ logger' = (IF traces[i].pc = "exit"
                  THEN [logger EXCEPT !.nestingLevel = Unnested(@)]
                  ELSE logger)
    /\ traces' = [traces EXCEPT
                    ![i].pc = IF @ = "exit" THEN "exited" ELSE "skipped"]
    /\ UNCHANGED <<rwVars, ctxVars, nest0, writers, applied>>

\* l.EnableTrace(), l.DisableTrace()
SetTrace(enable) ==
    /\ logger' = [logger EXCEPT !.traceEnabled = enable]
    /\ UNCHANGED <<rwVars, ctxVars, traces, nest0, writers, applied>>

\* l.SetLevel(level)
SetLevel(level) ==
    /\ logger' = [logger EXCEPT !.level = level]
    /\ UNCHANGED <<rwVars, ctxVars, traces, nest0, writers, applied>>

\* An option of New is applied: for _, option := range options { option(l) }.
Applied(opt, err) == applied' = Append(applied, [opt |-> opt, err |-> err])

\* WithOutput(w): l.out = w, for a caller's writer or nil.
Outputs == {"buffer", "nil"}
WithOutput(w) ==
    /\ Len(applied) < MaxOptions
    /\ logger' = [logger EXCEPT !.out = Writer(w)]
    /\ Applied("WithOutput", "nil")
    /\ UNCHANGED <<rwVars, ctxVars, traces, nest0, writers>>

\* NewRotateWriter returns the error of openFile, or the new writer.
NewOutcomes == {"nil", "EOPEN", "ESTAT"}

\* An option that leaves l.out as it was when the writer cannot be made.
NoFallback == logger.out

\* l.out = os.Stderr
Fallback == Writer("os.Stderr")

\* WithRotateWriter(filename, options...): a failed NewRotateWriter falls
\* back to os.Stderr; else the new writer is the output and l.closer is the
\* function that closes it.
WithRotateWriter(err) ==
    /\ Len(applied) < MaxOptions
    /\ IF err # "nil"
       THEN /\ logger' = [logger EXCEPT !.out = Fallback]
            /\ UNCHANGED writers
       ELSE /\ writers' = Append(writers, "open")
            /\ logger' = [logger EXCEPT !.out = Rotating(Len(writers) + 1),
                                        !.closer = Len(writers) + 1]
    /\ Applied("WithRotateWriter", err)
    /\ UNCHANGED <<rwVars, ctxVars, traces, nest0>>

\* l.closer(): rotateWriter.Close() on the writer the closure holds.
RunCloser ==
    /\ logger.closer # 0
    /\ writers' = [writers EXCEPT ![logger.closer] = "closed"]
    /\ UNCHANGED <<rwVars, ctxVars, logger, traces, nest0, applied>>

----------------------------------------------------------------------------
\* The options a sink is constructed with.

Configs ==
    [maxSize : {0, 1}, maxBackups : {0, 1}, backupInterval : {0, 1},
     compress : BOOLEAN]

\* NewRotateWriter: the options are applied, basePath is opened (created
\* when absent) and lastRotate is the construction time.
Constructed(configs) ==
    /\ cfg \in configs
    /\ file = [ino |-> 1, open |-> TRUE]
    /\ size = 0
    /\ lastRotate = 0
    /\ mu = NoProc
    /\ pc = [p \in Procs |-> "idle"]
    /\ op = [p \in Procs |-> NoOp]
    /\ last = NoLast
    /\ dir = [q \in Paths |-> IF q = Base THEN 1 ELSE 0]
    /\ inodes = <<[data |-> <<>>, mtime |-> 0]>>
    /\ now = 0
    /\ comp = EmptyBag
    /\ clean = EmptyBag
    /\ crashed = FALSE
    /\ nOps = 0
    /\ faults = 0
    /\ acked = [i \in 1..MaxOps |-> 0]
    /\ made = {}
    /\ loggers = <<NewLogger>>
    /\ arrays = <<>>

\* The Logger as some options of New and a derivation left it: any level,
\* tracing on or off, and the nesting level copied from its parent.
Made(l) ==
    /\ logger = l
    /\ nest0 = l.nestingLevel
    /\ traces = <<>>
    /\ writers = <<>>
    /\ applied = <<>>

InitWith(configs) == Constructed(configs) /\ Made(New)

Init == InitWith(Configs)

----------------------------------------------------------------------------
\* openFile: os.OpenFile(O_CREATE|O_WRONLY|O_APPEND) then file.Stat().
\* The file system after the open (the file is created when absent).
OpenedDir == IF Exists(Base) THEN dir ELSE [dir EXCEPT ![Base] = Len(inodes) + 1]
OpenedInodes ==
    IF Exists(Base) THEN inodes
    ELSE Append(inodes, [data |-> <<>>, mtime |-> now])
\* An openFile that takes the opened file for empty.
OpenedEmpty == Len(<<>>)
\* An openFile that adds the opened file's length to the old size.
OpenedAdded == size + Len(OpenedInodes[OpenedDir[Base]].data)
\* An openFile that leaves rw.file as it was.
Unopened == file
OpenedHandle == [ino |-> OpenedDir[Base], open |-> TRUE]
OpenedSize == Len(OpenedInodes[OpenedDir[Base]].data)

\* The outcomes of openFile: "nil", "EOPEN" (MkdirAll or OpenFile failed,
\* nothing changed) or "ESTAT" (the file was opened, and closed again).
OpenOutcomes == {"nil"} \cup (IF faults < MaxFaults THEN {"EOPEN", "ESTAT"} ELSE {})

openFile(err) ==
    /\ dir' = (IF err = "EOPEN" THEN dir ELSE OpenedDir)
    /\ inodes' = (IF err = "EOPEN" THEN inodes ELSE OpenedInodes)
    /\ file' = (IF err = "nil" THEN OpenedHandle ELSE file)
    /\ size' = (IF err = "nil" THEN OpenedSize ELSE size)
    /\ faults' = (IF err = "nil" THEN faults ELSE faults + 1)


\* A caller goes on to its next step, still holding rw.mu.
Goto(p, label) ==
    /\ pc' = [pc EXCEPT ![p] = label]
    /\ UNCHANGED <<mu, last>>

\* A caller returns: the deferred rw.mu.Unlock() runs and (n, err) is handed back.
Finish(p, n, err) ==
    /\ pc' = [pc EXCEPT ![p] = "idle"]
    /\ last' = [kind |-> op[p].kind, len |-> op[p].len, wasNil |-> op[p].wasNil,
                renamed |-> op[p].renamed, n |-> n, err |-> err]
    /\ op' = [op EXCEPT ![p] = NoOp]
    /\ mu' = NoProc

----------------------------------------------------------------------------
\* A lock that lets every caller in.
Unlocked == TRUE

\* sync.Mutex: Lock() returns only when no caller holds rw.mu.
MutexFree == mu = NoProc

\* The first step of each method after rw.mu.Lock().
Entry(kind) ==
    CASE kind = "Write" -> "w_open"
      [] kind = "ForceRotate" -> "r_close"
      [] OTHER -> "c_close"

\* A caller enters Write(p), ForceRotate() or Close(): rw.mu.Lock() and the
\* deferred Unlock. The calls are numbered in the order they get the lock;
\* a Write carries a payload of some length in lens.
CallOf(p, kinds, lens) ==
    /\ ~crashed
    /\ pc[p] = "idle"
    /\ nOps < MaxOps
    /\ MutexFree
    /\ \E kind \in kinds :
         \E n \in (IF kind = "Write" THEN lens ELSE {0}) :
            /\ op' = [op EXCEPT ![p] = [NoOp EXCEPT !.kind = kind, !.len = n,
                                                    !.id = nOps + 1,
                                                    !.wasNil = (file = NoHandle)]]
            /\ pc' = [pc EXCEPT ![p] = Entry(kind)]
    /\ mu' = p
    /\ nOps' = nOps + 1
    /\ UNCHANGED <<ctxVars, lgVars, cfg, sinkVars, last, fsVars, now, bgVars, faults, acked, made>>

\* The payloads of the Writes: a single byte, or MaxLen bytes.
Lens == {1, MaxLen}

Call(p) == CallOf(p, {"Write", "ForceRotate", "Close"}, Lens)

\* A size check that leaves the payload out: rotate once the file is over maxSize.
RotateWhenOver(sz, n) ==
    \/ (cfg.maxSize > 0 /\ sz > cfg.maxSize)
    \/ (cfg.backupInterval > 0 /\ now - lastRotate > cfg.backupInterval)

\* The predicate with inclusive comparisons.
RotateAtThreshold(sz, n) ==
    \/ (cfg.maxSize > 0 /\ sz + n >= cfg.maxSize)
    \/ (cfg.backupInterval > 0 /\ now - lastRotate >= cfg.backupInterval)

\* Write's rotation predicate for a payload of n bytes, the file holding sz
\* bytes: size + len(p) > maxSize, or the interval has passed since lastRotate.
RotateNeeded(sz, n) ==
    \/ (cfg.maxSize > 0 /\ sz + n > cfg.maxSize)
    \/ (cfg.backupInterval > 0 /\ now - lastRotate > cfg.backupInterval)

\* Where Write goes after its rotation check.
Checked(sz, n) == IF RotateNeeded(sz, n) THEN "r_close" ELSE "w_append"

\* A Write that never reopens.
NeverOpens == FALSE

\* Write's test for the lazy open: rw.file == nil.
NeedsOpen == file = NoHandle

\* Write: if rw.file == nil, openFile, and an error returns (0, err); then the
\* rotation check.
WriteOpen(p) ==
    /\ ~crashed
    /\ pc[p] = "w_open"
    /\ IF NeedsOpen
       THEN \E err \in OpenOutcomes :
              /\ openFile(err)
              /\ IF err = "nil"
                 THEN Goto(p, Checked(OpenedSize, op[p].len)) /\ UNCHANGED op
                 ELSE Finish(p, 0, err)
       ELSE /\ Goto(p, Checked(size, op[p].len))
            /\ UNCHANGED <<file, size, fsVars, faults, op>>
    /\ UNCHANGED <<ctxVars, lgVars, cfg, lastRotate, now, bgVars, nOps, acked, made>>

\* rotate, step 1: close the current handle; a close failure aborts the
\* rotation and leaves rw.file as it was (a handle that is now closed).
CloseOutcomes == {"nil"} \cup (IF faults < MaxFaults THEN {"ECLOSE"} ELSE {})

RotateClose(p) ==
    /\ ~crashed
    /\ pc[p] = "r_close"
    /\ IF file = NoHandle
       THEN /\ Goto(p, "r_rename")
            /\ UNCHANGED <<file, faults, op>>
       ELSE IF ~file.open
       THEN /\ Finish(p, 0, "ErrClosed")
            /\ UNCHANGED <<file, faults>>
       ELSE \E err \in CloseOutcomes :
              IF err = "nil"
              THEN /\ file' = NoHandle
                   /\ Goto(p, "r_rename")
                   /\ UNCHANGED <<faults, op>>
              ELSE /\ file' = [file EXCEPT !.open = FALSE]
                   /\ faults' = faults + 1
                   /\ Finish(p, 0, err)
    /\ UNCHANGED <<ctxVars, lgVars, cfg, size, lastRotate, fsVars, now, bgVars, nOps, acked, made>>

\* rotate, steps 2-4: the backup name from the clock, os.Rename, and the
\* compressor goroutine when the rename succeeded and compress is set.
RenameOutcomes ==
    IF ~Exists(Base) THEN {"ENOENT"}
    ELSE {"nil"} \cup (IF faults < MaxFaults THEN {"ERENAME"} ELSE {})

\* A rotation that takes every rename error for a failure.
NeverBenign(err) == FALSE

\* A rotation that takes every rename error for a missing basePath.
AlwaysBenign(err) == TRUE

\* os.IsNotExist(err): the rename failed because basePath does not exist.
IsNotExist(err) == err = "ENOENT"

\* os.Rename(rw.filename, backupName): an existing backupName is replaced.
Renamed(ts) == [dir EXCEPT ![Bak(ts)] = dir[Base], ![Base] = 0]

NewCompress(ts) == [ts |-> ts, pc |-> "c_open", src |-> 0, dst |-> 0]

\* A rotation that starts no compressor.
Undispatched(ts) == comp

\* A rotation that starts a compressor whether compress is set or not.
AlwaysDispatched(ts) == comp (+) SetToBag({NewCompress(ts)})

\* The compressors after a rename to basePath.<ts>: go func(name) {...}(backupName).
Dispatched(ts) == IF cfg.compress THEN comp (+) SetToBag({NewCompress(ts)}) ELSE comp

RotateRename(p) ==
    /\ ~crashed
    /\ pc[p] = "r_rename"
    /\ LET ts == Format(now) IN
       \E err \in RenameOutcomes :
          IF err = "nil"
          THEN /\ dir' = Renamed(ts)
               /\ comp' = Dispatched(ts)
               /\ op' = [op EXCEPT ![p].renamed = TRUE, ![p].bakIno = dir[Base],
                                   ![p].before = Linked]
               /\ made' = (IF op[p].kind = "ForceRotate"
                           THEN made \cup {[ts |-> ts, data |-> DataAt(Base)]}
                           ELSE made)
               /\ Goto(p, "r_reopen")
               /\ UNCHANGED faults
          ELSE IF IsNotExist(err)
          THEN \* nothing to rotate: continue with creating a new file
               /\ op' = [op EXCEPT ![p].before = Linked]
               /\ Goto(p, "r_reopen")
               /\ UNCHANGED <<dir, comp, faults, made>>
          ELSE /\ faults' = faults + 1
               /\ Finish(p, 0, err)
               /\ UNCHANGED <<dir, comp, made>>
    /\ UNCHANGED <<ctxVars, lgVars, cfg, sinkVars, inodes, now, clean, crashed, nOps, acked>>

\* rotate, steps 5-7: openFile, lastRotate = time.Now(), and the cleanup
\* goroutine when maxBackups > 0. Write goes on to its append.
NewCleanup == [pc |-> "g_glob", matches |-> <<>>, i |-> 0]

\* A rotation that dispatches a cleanup pass whatever maxBackups is.
AlwaysPruned == clean (+) SetToBag({NewCleanup})

\* The cleanup passes after a rotation: go rw.cleanupOldBackups().
Retained == IF cfg.maxBackups > 0 THEN clean (+) SetToBag({NewCleanup}) ELSE clean

\* A rotation that leaves lastRotate as it was.
Unstamped == lastRotate

\* rw.lastRotate = time.Now() at the end of a rotation that succeeded.
RotateTime == now

RotateReopen(p) ==
    /\ ~crashed
    /\ pc[p] = "r_reopen"
    /\ \E err \in OpenOutcomes :
         /\ openFile(err)
         /\ IF err = "nil"
            THEN /\ lastRotate' = RotateTime
                 /\ clean' = Retained
                 /\ IF op[p].kind = "Write"
                    THEN Goto(p, "w_append") /\ UNCHANGED op
                    ELSE Finish(p, 0, "nil")
            ELSE /\ Finish(p, 0, err)
                 /\ UNCHANGED <<lastRotate, clean>>
    /\ UNCHANGED <<ctxVars, lgVars, cfg, now, comp, crashed, nOps, acked, made>>

\* A file.Write that reports its bytes as written and leaves the file alone.
Unwritten(f, w) == f

\* rw.file.Write(p): O_APPEND adds the bytes at the end of the handle's inode.
Appended(f, w) ==
    IF Len(w) = 0 THEN f ELSE [data |-> f.data \o w, mtime |-> now]

\* The (n, err) the underlying write may return for a payload of n bytes.
WriteOutcomes(n) ==
    {[n |-> n, err |-> "nil"]} \cup
    (IF faults < MaxFaults
     THEN {[n |-> k, err |-> "EWRITE"] : k \in 0..Max(n - 1, 0)}
     ELSE {})

\* Write: n, err = rw.file.Write(p); rw.size += n; return n, err.
WriteAppend(p) ==
    /\ ~crashed
    /\ pc[p] = "w_append"
    /\ IF ~file.open
       THEN /\ Finish(p, 0, "ErrClosed")
            /\ UNCHANGED <<size, inodes, faults, acked>>
       ELSE \E r \in WriteOutcomes(op[p].len) :
              /\ inodes' = [inodes EXCEPT ![file.ino] =
                                Appended(@, Payload(op[p].id, r.n))]
              /\ size' = size + r.n
              /\ acked' = [acked EXCEPT ![op[p].id] = r.n]
              /\ faults' = (IF r.err = "nil" THEN faults ELSE faults + 1)
              /\ Finish(p, r.n, r.err)
    /\ UNCHANGED <<ctxVars, lgVars, cfg, file, lastRotate, dir, now, bgVars, nOps, made>>

\* A Close that clears rw.file only when the underlying close succeeded.
ClearedOnSuccess(err) == IF err = "nil" THEN NoHandle ELSE [file EXCEPT !.open = FALSE]

\* Close after rw.file.Close() returned err: rw.file = nil, whatever err is.
AfterClose(err) == NoHandle

\* Close: nil when there is no handle; else close it and clear rw.file.
CloseFile(p) ==
    /\ ~crashed
    /\ pc[p] = "c_close"
    /\ IF file = NoHandle
       THEN /\ Finish(p, 0, "nil")
            /\ UNCHANGED <<file, faults>>
       ELSE IF ~file.open
       THEN /\ file' = AfterClose("ErrClosed")
            /\ Finish(p, 0, "ErrClosed")
            /\ UNCHANGED faults
       ELSE \E err \in CloseOutcomes :
              /\ file' = AfterClose(err)
              /\ faults' = (IF err = "nil" THEN faults ELSE faults + 1)
              /\ Finish(p, 0, err)
    /\ UNCHANGED <<ctxVars, lgVars, cfg, size, lastRotate, fsVars, now, bgVars, nOps, acked, made>>

\* The clock advances. A tick is long against the time a call holds rw.mu:
\* the clock is read as not advancing inside one call.
Tick ==
    /\ ~crashed
    /\ now < MaxTime
    /\ mu = NoProc
    /\ now' = now + 1
    /\ UNCHANGED <<ctxVars, lgVars, cfg, sinkVars, mu, pc, op, last, fsVars, bgVars, nOps, faults, acked,
                   made>>

----------------------------------------------------------------------------
\* compressFile(name), run as a goroutine per renamed backup. errs are the
\* I/O failures the environment may inject into the step.

Unlinked(path) == [dir EXCEPT ![path] = 0]
Failing(errs) == IF faults < MaxFaults THEN errs ELSE {}
Spent(err) == IF err = "nil" THEN faults ELSE faults + 1
Ended(bag, t) == bag (-) SetToBag({t})
Moved(bag, t, u) == (bag (-) SetToBag({t})) (+) SetToBag({u})

\* os.Open(filename), then os.Create(filename + ".gz"), which creates the
\* file or truncates an existing one; an error ends the goroutine.
CompressOpen(t, errs) ==
    /\ ~crashed
    /\ t.pc = "c_open"
    /\ IF ~Exists(Bak(t.ts))
       THEN /\ comp' = Ended(comp, t)
            /\ UNCHANGED <<fsVars, faults>>
       ELSE \E err \in {"nil"} \cup Failing(errs) :
              IF err = "nil"
              THEN LET gz == Gz(t.ts)
                       ino == IF Exists(gz) THEN dir[gz] ELSE Len(inodes) + 1
                   IN /\ dir' = [dir EXCEPT ![gz] = ino]
                      /\ inodes' = (IF Exists(gz)
                                    THEN [inodes EXCEPT ![ino] = [data |-> <<>>, mtime |-> now]]
                                    ELSE Append(inodes, [data |-> <<>>, mtime |-> now]))
                      /\ comp' = Moved(comp, t, [t EXCEPT !.pc = "c_copy",
                                                          !.src = dir[Bak(t.ts)],
                                                          !.dst = ino])
                      /\ UNCHANGED faults
              ELSE /\ comp' = Ended(comp, t)
                   /\ faults' = faults + 1
                   /\ UNCHANGED fsVars
    /\ UNCHANGED <<ctxVars, lgVars, cfg, sinkVars, mu, pc, op, last, now, clean, crashed, nOps, acked, made>>

\* What the compressed file holds after io.Copy and the Close calls:
\* the whole stream, only a header when the copy failed ("ECOPY"), or the
\* stream without its trailer when closing the gzip writer or the file
\* failed ("EFINAL", an error compressFile does not look at).
Compressed(d, err) ==
    CASE err = "nil" -> Gzip(d)
      [] err = "ECOPY" -> GzipHeader
      [] OTHER -> GzipHeader \o d

\* io.Copy(gzipWriter, file); gzipWriter.Close(); compressed.Close(); file.Close().
CompressCopy(t, errs) ==
    /\ ~crashed
    /\ t.pc = "c_copy"
    /\ \E err \in {"nil"} \cup Failing(errs) :
         /\ inodes' = [inodes EXCEPT ![t.dst] =
                          [data |-> WriteAt0(@.data, Compressed(inodes[t.src].data, err)),
                           mtime |-> now]]
         /\ comp' = (IF err = "ECOPY" THEN Ended(comp, t)
                     ELSE Moved(comp, t, [t EXCEPT !.pc = "c_remove"]))
         /\ faults' = Spent(err)
    /\ UNCHANGED <<ctxVars, lgVars, cfg, sinkVars, mu, pc, op, last, dir, now, clean, crashed, nOps, acked,
                   made>>

\* return os.Remove(filename): by name, whatever file has that name now.
CompressRemove(t, errs) ==
    /\ ~crashed
    /\ t.pc = "c_remove"
    /\ \E err \in {"nil"} \cup Failing(errs) :
         /\ dir' = (IF err = "nil" THEN Unlinked(Bak(t.ts)) ELSE dir)
         /\ faults' = Spent(err)
    /\ comp' = Ended(comp, t)
    /\ UNCHANGED <<ctxVars, lgVars, cfg, sinkVars, mu, pc, op, last, inodes, now, clean, crashed, nOps,
                   acked, made>>

----------------------------------------------------------------------------
\* cleanupOldBackups, run as a goroutine after a rotation when maxBackups > 0.

IsGz(path) == path.kind = "gz"

\* filepath.Glob(base + ".????????-??????*"): every backup, compressed or not.
GlobAll == SelectSeq(PathSeq, Exists)
\* filepath.Glob(base + ".????????-??????*.gz").
GlobGz == SelectSeq(PathSeq, LAMBDA q : Exists(q) /\ IsGz(q))

CleanupGlob(t) ==
    /\ ~crashed
    /\ t.pc = "g_glob"
    /\ clean' = Moved(clean, t, [t EXCEPT !.pc = "g_globgz", !.matches = GlobAll])
    /\ UNCHANGED <<ctxVars, lgVars, cfg, sinkVars, mu, pc, op, last, fsVars, now, comp, crashed, nOps,
                   faults, acked, made>>

\* matches = append(matches, gzMatches...); return if len(matches) <= maxBackups.
CleanupGlobGz(t) ==
    /\ ~crashed
    /\ t.pc = "g_globgz"
    /\ LET m == t.matches \o GlobGz IN
       clean' = (IF Len(m) <= cfg.maxBackups THEN Ended(clean, t)
                 ELSE Moved(clean, t, [t EXCEPT !.pc = "g_sort", !.matches = m]))
    /\ UNCHANGED <<ctxVars, lgVars, cfg, sinkVars, mu, pc, op, last, fsVars, now, comp, crashed, nOps,
                   faults, acked, made>>

\* The order sort.Slice leaves m in: the modification times do not decrease,
\* and entries of equal time keep their order (for the few entries of a pass
\* sort.Slice is an insertion sort, which swaps neighbours only when less holds).
SortedByModTime(m) ==
    {q \in {[k \in 1..Len(m) |-> m[f[k]]] : f \in
                {g \in Permutations(1..Len(m)) :
                    \A a, b \in 1..Len(m) :
                        a < b =>
                          \/ inodes[dir[m[g[a]]]].mtime < inodes[dir[m[g[b]]]].mtime
                          \/ /\ inodes[dir[m[g[a]]]].mtime = inodes[dir[m[g[b]]]].mtime
                             /\ g[a] < g[b]}} : TRUE}

\* sort.Slice with os.Stat in the comparison: the Stat of a file that is gone
\* returns a nil FileInfo, and infoI.ModTime() panics.
CleanupSort(t) ==
    /\ ~crashed
    /\ t.pc = "g_sort"
    /\ IF \E k \in 1..Len(t.matches) : ~Exists(t.matches[k])
       THEN crashed' = TRUE /\ UNCHANGED clean
       ELSE /\ \E q \in SortedByModTime(t.matches) :
                 clean' = Moved(clean, t, [t EXCEPT !.pc = "g_remove", !.matches = q,
                                                    !.i = 1])
            /\ UNCHANGED crashed
    /\ UNCHANGED <<ctxVars, lgVars, cfg, sinkVars, mu, pc, op, last, fsVars, now, comp, nOps, faults, acked,
                   made>>

\* for i := 0; i < len(matches)-maxBackups; i++ { os.Remove(matches[i]) }:
\* one removal; an error is reported and the loop goes on.
\* A loop that returns at the first removal that fails.
HaltOnError(t, err) ==
    IF err # "nil" \/ t.i + 1 > Len(t.matches) - cfg.maxBackups
    THEN Ended(clean, t)
    ELSE Moved(clean, t, [t EXCEPT !.i = @ + 1])

\* The loop after os.Remove returned err: i++, and on to the next excess
\* file or out of the loop, whatever err is.
NextRemoval(t, err) ==
    IF t.i + 1 > Len(t.matches) - cfg.maxBackups
    THEN Ended(clean, t)
    ELSE Moved(clean, t, [t EXCEPT !.i = @ + 1])

CleanupRemove(t, errs) ==
    /\ ~crashed
    /\ t.pc = "g_remove"
    /\ \E err \in {"nil"} \cup Failing(errs) :
         /\ dir' = (IF err = "nil" THEN Unlinked(t.matches[t.i]) ELSE dir)
         /\ faults' = Spent(err)
         /\ clean' = NextRemoval(t, err)
    /\ UNCHANGED <<ctxVars, lgVars, cfg, sinkVars, mu, pc, op, last, inodes, now, comp, crashed, nOps, acked,
                   made>>

----------------------------------------------------------------------------
\* The callers' steps under rw.mu.
SinkSteps(p) ==
    \/ WriteOpen(p)
    \/ RotateClose(p)
    \/ RotateRename(p)
    \/ RotateReopen(p)
    \/ WriteAppend(p)
    \/ CloseFile(p)

\* The compressors, with and without I/O failures.
CompressNext ==
    \E t \in BagToSet(comp) :
        \/ CompressOpen(t, {})
        \/ CompressCopy(t, {})
        \/ CompressRemove(t, {})

\* A sink that neither compresses nor prunes: callers and the clock.
SinkConfigs == {c \in Configs : ~c.compress /\ c.maxBackups = 0}
Next == (\E p \in Procs : Call(p) \/ SinkSteps(p)) \/ Tick
Spec == InitWith(SinkConfigs) /\ [][Next]_vars

\* A sink that compresses its backups and keeps them all.
CompressConfigs ==
    {c \in Configs : c.compress /\ c.maxBackups = 0 /\ c.maxSize = 0 /\ c.backupInterval = 0}
NextCompress == (\E p \in Procs : Call(p) \/ SinkSteps(p)) \/ Tick \/ CompressNext
SpecCompress == InitWith(CompressConfigs) /\ [][NextCompress]_vars

\* The same sink under a burst of forced rotations, within one tick of the clock.
ForceSteps(p) ==
    \/ CallOf(p, {"ForceRotate"}, {})
    \/ RotateClose(p)
    \/ RotateRename(p)
    \/ RotateReopen(p)
NextForce == (\E p \in Procs : ForceSteps(p)) \/ CompressNext
SpecForce == InitWith(CompressConfigs) /\ [][NextForce]_vars

\* The same burst with every compressor running to its end: a goroutine that
\* can take a step is scheduled in the end.
SpecFair == SpecForce /\ WF_vars(CompressNext)

\* The compressors under I/O failures: os.Open or os.Create fails, io.Copy
\* fails, closing the gzip writer or the compressed file fails, os.Remove fails.
CompressFaulty ==
    \E t \in BagToSet(comp) :
        \/ CompressOpen(t, {"ECREATE"})
        \/ CompressCopy(t, {"ECOPY", "EFINAL"})
        \/ CompressRemove(t, {"EREMOVE"})

\* The compressing sink, callers and compressors, under I/O failures.
NextFaulty == (\E p \in Procs : Call(p) \/ SinkSteps(p)) \/ CompressFaulty
SpecFaulty == InitWith(CompressConfigs) /\ [][NextFaulty]_vars

\* The cleanup passes, without I/O failure.
CleanupNext ==
    \E t \in BagToSet(clean) :
        \/ CleanupGlob(t)
        \/ CleanupGlobGz(t)
        \/ CleanupSort(t)
        \/ CleanupRemove(t, {})

\* Sinks that keep one backup, or all of them, under forced rotations, with
\* the clock and the cleanup passes; then a compressing sink that keeps one
\* backup, under MaxRotations forced rotations.
PruneConfigs ==
    {c \in Configs : ~c.compress /\ c.maxSize = 0 /\ c.backupInterval = 0}
NextPrune == (\E p \in Procs : ForceSteps(p)) \/ Tick \/ CleanupNext
SpecPrune == InitWith(PruneConfigs) /\ [][NextPrune]_vars

\* The cleanup passes with removals that may fail.
CleanupFaulty ==
    \E t \in BagToSet(clean) :
        \/ CleanupGlob(t)
        \/ CleanupGlobGz(t)
        \/ CleanupSort(t)
        \/ CleanupRemove(t, {"EREMOVE"})

RetainConfigs ==
    {c \in Configs : c.compress /\ c.maxBackups = 1 /\ c.maxSize = 0
                        /\ c.backupInterval = 0}
RetainSteps(p) ==
    \/ (nOps < MaxRotations /\ CallOf(p, {"ForceRotate"}, {}))
    \/ RotateClose(p)
    \/ RotateRename(p)
    \/ RotateReopen(p)
NextRetain == (\E p \in Procs : RetainSteps(p)) \/ Tick \/ CompressNext \/ CleanupNext
SpecRetain == InitWith(RetainConfigs) /\ [][NextRetain]_vars

\* The same sink under a burst of forced rotations within one tick of the
\* clock, its cleanup passes meeting removal failures.
NextBurst == (\E p \in Procs : RetainSteps(p)) \/ CompressNext \/ CleanupFaulty
SpecBurst == InitWith(RetainConfigs) /\ [][NextBurst]_vars

\* A compressing sink that keeps one backup, as its callers see it: the
\* goroutines its rotations start have not run yet.
CallerConfigs ==
    {c \in Configs : c.compress /\ c.maxBackups = 1 /\ c.backupInterval = 0}
NextCallers == (\E p \in Procs : Call(p) \/ SinkSteps(p)) \/ Tick
SpecCallers == InitWith(CallerConfigs) /\ [][NextCallers]_vars

\* Sinks that keep every backup, compressed or not, under MaxRotations
\* forced rotations, the clock and the compressors.
EitherConfigs ==
    {c \in Configs : c.maxBackups = 0 /\ c.maxSize = 0 /\ c.backupInterval = 0}
NextEither == (\E p \in Procs : RetainSteps(p)) \/ Tick \/ CompressNext
SpecEither == InitWith(EitherConfigs) /\ [][NextEither]_vars

\* The loggers derived from New(), from one another, in any order.
NextContext ==
    \/ \E i \in 1..Len(loggers), k \in Keys, v \in Values : WithContext(i, k, v)
    \/ \E i \in 1..Len(loggers), fields \in FieldMaps :
          \E ks \in Orders(DOMAIN fields) : WithFields(i, fields, ks)
    \/ \E i \in 1..Len(loggers), k \in Keys : WithoutContext(i, k)
SpecContext == InitWith(CompressConfigs) /\ [][NextContext]_vars

\* The sink of Spec with callers whose Writes carry no byte, or MaxLen bytes.
EmptyLens == {0, MaxLen}
NextEmpty ==
    (\E p \in Procs : CallOf(p, {"Write", "ForceRotate", "Close"}, EmptyLens)
                          \/ SinkSteps(p)) \/ Tick
SpecEmpty == InitWith(SinkConfigs) /\ [][NextEmpty]_vars

\* A sink that keeps one backup under any mix of Write, ForceRotate and Close,
\* with the clock and the cleanup passes its rotations start. A caller that
\* holds rw.mu and a started goroutine keep running: each is scheduled in
\* the end.
MixConfigs ==
    {c \in Configs : ~c.compress /\ c.maxBackups = 1 /\ c.backupInterval = 0}
CallerNext == \E p \in Procs : SinkSteps(p)
NextMix == (\E p \in Procs : Call(p) \/ SinkSteps(p)) \/ Tick \/ CleanupNext
SpecMix ==
    /\ InitWith(MixConfigs) /\ [][NextMix]_vars
    /\ WF_vars(CallerNext) /\ WF_vars(CleanupNext)

\* One logger under TraceFunction calls, calls of the returned closures in
\* any order, EnableTrace, DisableTrace and SetLevel. The logger comes from
\* New with WithTrace and WithLevel, or from WithContext on a logger inside
\* a trace, which copies the parent's nestingLevel.
TraceLoggers ==
    {[New EXCEPT !.level = lv, !.traceEnabled = b, !.nestingLevel = n] :
        lv \in Levels, b \in BOOLEAN, n \in 0..1}
InitTrace == Constructed(CompressConfigs) /\ \E l \in TraceLoggers : Made(l)
NextTrace ==
    \/ TraceFunction
    \/ \E i \in 1..Len(traces) : TraceEnter(i)
    \/ \E i \in 1..Len(traces) : TraceExit(i)
    \/ \E enable \in BOOLEAN : SetTrace(enable)
    \/ \E level \in Levels : SetLevel(level)
SpecTrace == InitTrace /\ [][NextTrace]_vars

\* New applying up to MaxOptions options, and the closer being called.
NextOptions ==
    \/ \E w \in Outputs : WithOutput(w)
    \/ \E err \in NewOutcomes : WithRotateWriter(err)
    \/ RunCloser
SpecOptions == InitWith(CompressConfigs) /\ [][NextOptions]_vars

----------------------------------------------------------------------------
\* Notions the properties below are stated with.

\* The length of the active file; 0 when basePath does not exist.
ActiveLen == IF Exists(Base) THEN Len(DataAt(Base)) ELSE 0

\* The steps of rotate.
RotateLabels == {"r_close", "r_rename", "r_reopen"}

\* This step is caller p returning.
Returns(p) == pc[p] # "idle" /\ pc'[p] = "idle"

\* This step is the end of a rotation by p that returns nil: its reopen succeeded.
RotationDone(p) == pc[p] = "r_reopen" /\ file' # NoHandle

\* How often the bytes of call id occur in d, and in all files together.
Occurrences(d, id) == Cardinality({i \in 1..Len(d) : d[i] = id})

RECURSIVE OccurrencesIn(_, _)
OccurrencesIn(S, id) ==
    IF S = {} THEN 0
    ELSE LET q == CHOOSE r \in S : TRUE
         IN Occurrences(DataAt(q), id) + OccurrencesIn(S \ {q}, id)

Present(id) == OccurrencesIn({q \in Paths : Exists(q)}, id)

\* Backup q holds the content d: as it is, or compressed.
Holds(q, d) ==
    /\ Exists(q)
    /\ IF IsGz(q) THEN GzipValid(DataAt(q)) /\ Gunzip(DataAt(q)) = d
       ELSE DataAt(q) = d

\* The same in the state after the step.
HoldsAfter(q, d) ==
    /\ dir'[q] # 0
    /\ LET z == inodes'[dir'[q]].data
       IN IF IsGz(q) THEN GzipValid(z) /\ Gunzip(z) = d ELSE z = d

----------------------------------------------------------------------------
C2_Exclusion ==
    /\ Cardinality({p \in Procs : pc[p] # "idle"}) <= 1
    /\ \A p \in Procs : pc[p] # "idle" => mu = p
    /\ \A p \in Procs :
         (pc[p] = "w_append" /\ file.open)
            => /\ dir[Base] = file.ino
               /\ \A q \in BackupPaths : dir[q] # file.ino

\* A Write is about to append after its own rotation, with backups on disk.
C2_Witness ==
    \E p \in Procs :
        /\ pc[p] = "w_append" /\ op[p].renamed /\ file.open
        /\ Linked # {}
        /\ nOps >= 2

\* C3: with retention disabled, every byte a Write reported as written is
\* present exactly once, in the active file or in one backup.
C3_NoWriteLost == \A id \in 1..MaxOps : Present(id) = acked[id]

\* C4: the content renamed by a ForceRotate is recoverable from the backup
\* of that rotation: read from basePath.<ts> when compression is off, and
\* decompressed from basePath.<ts>.gz once no compressor of <ts> is running.
C4_RoundTrip ==
    \A m \in made :
        (\A t \in BagToSet(comp) : t.ts # m.ts)
           => Holds(IF cfg.compress THEN Gz(m.ts) ELSE Bak(m.ts), m.data)

\* C5, for the rotations that renamed basePath: when such a rotation returns
\* nil, the backups on disk are those from before it and exactly one more,
\* and basePath exists and is empty.
C5_OneNewBackup ==
    [][\A p \in Procs :
         (RotationDone(p) /\ op[p].renamed)
            => /\ op[p].before \subseteq Linked'
               /\ Cardinality(Linked' \ op[p].before) = 1
               /\ dir'[Base] # 0
               /\ inodes'[dir'[Base]].data = <<>>]_vars

\* C6: a Write goes from its check into rotate if and only if
\* (maxSize > 0 and size + len(p) > maxSize) or (backupInterval > 0 and
\* now - lastRotate > backupInterval); a Write is inside rotate only by that
\* way; and with maxSize = 0 and backupInterval = 0 no Write is ever inside
\* rotate.
C6_RotateIff ==
    [][\A p \in Procs :
         /\ (pc[p] = "w_open" /\ pc'[p] \notin {"w_open", "idle"})
               => ((pc'[p] = "r_close") <=>
                     \/ (cfg.maxSize > 0 /\ size' + op[p].len > cfg.maxSize)
                     \/ (cfg.backupInterval > 0
                            /\ now - lastRotate > cfg.backupInterval))
         /\ (op'[p].kind = "Write" /\ pc'[p] \in RotateLabels)
               => pc[p] \in {"w_open"} \cup RotateLabels
         /\ (cfg.maxSize = 0 /\ cfg.backupInterval = 0 /\ op'[p].kind = "Write")
               => pc'[p] \notin RotateLabels]_vars

\* A Write rotates after more than backupInterval of idle time although the
\* size is under the threshold.
C6_Witness ==
    \E p \in Procs :
        /\ op[p].kind = "Write" /\ pc[p] = "r_close"
        /\ cfg.backupInterval > 0 /\ now - lastRotate > cfg.backupInterval
        /\ ~(cfg.maxSize > 0 /\ size + op[p].len > cfg.maxSize)

\* C7: a ForceRotate goes into rotate whatever size and lastRotate are, and
\* when it returns nil basePath exists, the sink holds an open handle on it
\* and, if the rotation renamed basePath, some backup holds the content that
\* was renamed.
C7_ForceRotate ==
    [][\A p \in Procs :
         /\ (op'[p].kind = "ForceRotate" => pc'[p] \in RotateLabels)
         /\ (op[p].kind = "ForceRotate" /\ RotationDone(p))
               => /\ dir'[Base] # 0
                  /\ file'.open /\ file'.ino = dir'[Base]
                  /\ op[p].renamed
                       => \E q \in BackupPaths :
                             HoldsAfter(q, inodes[op[p].bakIno].data)]_vars

\* C8: a rotation that finds no basePath to rename goes on to its reopen
\* with the files and the compressors as they were; its reopen makes no
\* backup and dispatches no compressor either, and its result is that of the
\* reopen: nil, with a fresh empty file at basePath that the sink holds open,
\* unless opening the file fails.
C8_MissingBase ==
    [][\A p \in Procs :
         /\ (pc[p] = "r_rename" /\ pc'[p] # "r_rename" /\ ~Exists(Base))
               => /\ pc'[p] = "r_reopen"
                  /\ UNCHANGED <<dir, inodes, comp, faults>>
         /\ (pc[p] = "r_reopen" /\ pc'[p] # "r_reopen" /\ ~op[p].renamed)
               => /\ Linked' = Linked
                  /\ comp' = comp
                  /\ IF faults' = faults
                     THEN /\ last'.err = "nil"
                          /\ dir'[Base] # 0
                          /\ inodes'[dir'[Base]].data = <<>>
                          /\ file'.open /\ file'.ino = dir'[Base]
                     ELSE last'.err \in {"EOPEN", "ESTAT"}]_vars

\* A ForceRotate found no basePath, made no backup and returned nil with a
\* new file open, on a sink that compresses.
C8_Witness ==
    /\ cfg.compress
    /\ last.kind = "ForceRotate" /\ last.err = "nil" /\ ~last.renamed
    /\ mu = NoProc
    /\ Exists(Base) /\ file.open

\* C9: every Close leaves the sink without a handle, also when the
\* underlying close failed, and a Close on a sink without a handle returns
\* nil and changes nothing.
C9_CloseIdempotent ==
    [][\A p \in Procs :
         (pc[p] = "c_close" /\ Returns(p))
            => /\ file' = NoHandle
               /\ file = NoHandle
                    => /\ last'.err = "nil"
                       /\ UNCHANGED <<cfg, sinkVars, fsVars, bgVars, now, faults, acked>>]_vars

\* A second Close returned nil on a sink that a first Close left without a
\* handle.
C9_Witness ==
    /\ last.kind = "Close" /\ last.wasNil /\ last.err = "nil"
    /\ file = NoHandle
    /\ nOps >= 2

\* C10: a Write that finds the sink without a handle opens basePath, and
\* fails then only by an I/O failure; it never returns the error of a closed
\* file, any error it returns is an I/O failure of that step, and its append
\* adds the bytes it reports, all of them when it returns nil, to the file at
\* basePath.
C10_LazyReopen ==
    [][\A p \in Procs :
         (op[p].kind = "Write" /\ op[p].wasNil)
            => /\ (pc[p] = "w_open" /\ pc'[p] # "w_open")
                    => IF file' = NoHandle
                       THEN pc'[p] = "idle" /\ faults' = faults + 1
                       ELSE /\ file'.open /\ file'.ino = dir'[Base]
                            /\ size' = Len(inodes'[dir'[Base]].data)
               /\ Returns(p)
                    => /\ last'.err # "ErrClosed"
                       /\ last'.err # "nil" => faults' = faults + 1
               /\ (pc[p] = "w_append" /\ Returns(p))
                    => /\ file.ino = dir[Base]
                       /\ inodes'[dir[Base]].data =
                             inodes[dir[Base]].data \o Payload(op[p].id, last'.n)
                       /\ last'.err = "nil" => last'.n = op[p].len]_vars

\* The first call was a Close, and the Write after it returned nil with its
\* bytes in the file at basePath.
C10_Witness ==
    /\ nOps = 2 /\ faults = 0 /\ acked[1] = 0 /\ Linked = {}
    /\ last.kind = "Write" /\ last.wasNil /\ last.err = "nil"
    /\ last.n = last.len
    /\ Present(2) = last.n

----------------------------------------------------------------------------
\* C18: a Write that meets no I/O failure returns nil with all its bytes
\* appended to the file at basePath, whatever errors earlier calls returned.
C18_StaysUsable ==
    [][\A p \in Procs :
         (op[p].kind = "Write" /\ Returns(p) /\ faults >= 1 /\ faults' = faults)
            => /\ last'.err = "nil"
               /\ last'.n = op[p].len
               /\ dir'[Base] # 0
               /\ file'.open /\ file'.ino = dir'[Base]]_vars

\* C19: a rotation whose close fails returns the error with no file renamed
\* and nothing dispatched, and a Write that then finds the sink without an
\* open handle opens basePath again (or fails opening it).
C19_CloseFailure ==
    [][\A p \in Procs :
         /\ (pc[p] = "r_close" /\ Returns(p))
               => /\ last'.err # "nil"
                  /\ ~file'.open
                  /\ UNCHANGED <<fsVars, bgVars, lastRotate>>
         /\ (op[p].kind = "Write" /\ pc[p] = "w_open" /\ pc'[p] # "w_open"
                /\ ~file.open)
               => (file'.open \/ faults' = faults + 1)]_vars

----------------------------------------------------------------------------
C16_RemoveOnlyAfterSuccess ==
    [][\A ts \in Stamps :
         (dir[Bak(ts)] # 0 /\ dir'[Bak(ts)] = 0)
            => HoldsAfter(Gz(ts), inodes[dir[Bak(ts)]].data)]_vars

----------------------------------------------------------------------------
\* The files a cleanup pass found, and how many it is about to delete.
Found(t) == {t.matches[k] : k \in 1..Len(t.matches)}
Excess(t) == Len(t.matches) - cfg.maxBackups

\* C13: a cleanup pass that goes on to delete found more than maxBackups
\* backup files and deletes as many as it found beyond maxBackups, each file
\* it found counted once.
C13_ExactPrune ==
    \A t \in BagToSet(clean) :
        t.pc \in {"g_sort", "g_remove"}
           => /\ Cardinality(Found(t)) > cfg.maxBackups
              /\ Excess(t) = Cardinality(Found(t)) - cfg.maxBackups

\* C11: with maxBackups > 0 and no I/O failure, when no call is in progress
\* and every compressor and cleanup pass has finished, at most maxBackups
\* backup files exist.
C11_Bounded ==
    (/\ cfg.maxBackups > 0 /\ faults = 0 /\ ~crashed
     /\ mu = NoProc /\ comp = EmptyBag /\ clean = EmptyBag)
        => Cardinality(Linked) <= cfg.maxBackups

\* C12: when a cleanup pass deletes a backup, every backup of an earlier
\* rotation that still exists is one the pass is about to delete too.
C12_OldestFirst ==
    [][\A t \in BagToSet(clean) :
         (/\ t.pc = "g_remove"
          /\ dir[t.matches[t.i]] # 0
          /\ dir' = Unlinked(t.matches[t.i])
          /\ clean' \in {Ended(clean, t), Moved(clean, t, [t EXCEPT !.i = @ + 1])})
            => \A r \in BackupPaths :
                  (dir'[r] # 0 /\ r.ts < t.matches[t.i].ts)
                     => \E j \in (t.i + 1)..Excess(t) : t.matches[j] = r]_vars

\* C17: no interleaving of the compressors and the cleanup passes ends the
\* process.
C17_NoPanic == ~crashed

\* C14: with maxBackups = 0 no step dispatches a cleanup pass and no step
\* takes a backup file away.
C14_KeepsAll ==
    [][cfg.maxBackups = 0 => (clean' = EmptyBag /\ Linked \subseteq Linked')]_vars

\* Two rotations of different seconds are done, and both backups are there.
C14_Witness ==
    /\ cfg.maxBackups = 0
    /\ mu = NoProc /\ nOps >= 2
    /\ clean = EmptyBag
    /\ Cardinality(Linked) >= 2

\* C20: a rotation that reaches the rename with basePath present and makes
\* no backup of it returns the rename error to its caller, with no file
\* renamed or created, no compressor or cleanup pass dispatched and
\* lastRotate as it was.
C20_RenameFailure ==
    [][\A p \in Procs :
         (pc[p] = "r_rename" /\ pc'[p] # "r_rename" /\ Exists(Base) /\ dir' = dir)
            => /\ Returns(p)
               /\ last'.err = "ERENAME" /\ last'.n = 0
               /\ UNCHANGED <<fsVars, bgVars, lastRotate>>]_vars

\* A rotation of a compressing, pruning sink failed at the rename, in a later
\* second than the last rotation: nothing is dispatched, no backup exists.
C20_Witness ==
    /\ cfg.compress /\ cfg.maxBackups > 0
    /\ mu = NoProc
    /\ last.err = "ERENAME"
    /\ lastRotate < now
    /\ Linked = {} /\ comp = EmptyBag /\ clean = EmptyBag

----------------------------------------------------------------------------
\* C21: no step of a Write of zero bytes, entered with the handle open and
\* no I/O failure, changes the content of the file at basePath, the set of
\* backup files, size or lastRotate.
C21_EmptyWrite ==
    [][\A p \in Procs :
         (/\ op[p].kind = "Write" /\ op[p].len = 0 /\ ~op[p].wasNil
          /\ pc[p] # "idle" /\ faults' = 0)
            => /\ Linked' = Linked
               /\ dir'[Base] # 0 /\ inodes'[dir'[Base]].data = DataAt(Base)
               /\ size' = size
               /\ lastRotate' = lastRotate]_vars

----------------------------------------------------------------------------
\* This step gives the sink a new open handle (openFile returned nil).
Opens == file'.open /\ file' # file

\* This step is p's rw.file.Write on an open handle, returning (n, err): the
\* file grows by the n bytes, size by n, and (n, err) goes to the caller.
AppendsExactly(p) ==
    /\ inodes'[file.ino].data = inodes[file.ino].data \o Payload(op[p].id, last'.n)
    /\ size' = size + last'.n
    /\ last'.n <= op[p].len
    /\ (last'.err = "nil") <=> (last'.n = op[p].len)
    /\ acked'[op[p].id] = last'.n

\* C22, as the specification states it: size counts the bytes appended since
\* the handle was opened: it is 0 at every open, grows with every append
\* by the n it wrote, and changes at no other step.
C22_SinceOpen ==
    [][/\ Opens => size' = 0
       /\ \A p \in Procs :
            (pc[p] = "w_append" /\ file.open /\ pc'[p] = "idle") => AppendsExactly(p)
       /\ size' # size => (Opens \/ \E p \in Procs : pc[p] = "w_append")]_vars

\* C22, amended: size is the length the file had when the handle was opened
\* plus the bytes appended since: every open sets it to the file's length,
\* every append raises it by the n it wrote, and it changes at no other step.
C22_SizeTracksHandle ==
    [][/\ Opens => size' = Len(inodes'[file'.ino].data)
       /\ \A p \in Procs :
            (pc[p] = "w_append" /\ file.open /\ pc'[p] = "idle") => AppendsExactly(p)
       /\ size' # size => (Opens \/ \E p \in Procs : pc[p] = "w_append")]_vars

\* A Write reopened a file that held bytes already, and wrote only a part
\* of its payload: size counts the bytes found and the bytes written.
C22_Witness ==
    /\ mu = NoProc /\ file.open
    /\ last.kind = "Write" /\ last.wasNil
    /\ last.err = "EWRITE" /\ last.n >= 1 /\ last.n < last.len
    /\ size > last.n
    /\ size = ActiveLen

\* C30: whenever the sink holds an open handle and no call is in progress,
\* the handle is on the file at basePath and size is that file's length.
C30_SizeIsLength ==
    (file.open /\ mu = NoProc)
        => /\ Exists(Base) /\ file.ino = dir[Base]
           /\ size = Len(DataAt(Base))

\* A Write reopened a file that held bytes already and appended its own.
C30_Witness ==
    /\ mu = NoProc /\ file.open
    /\ last.kind = "Write" /\ last.wasNil /\ last.err = "nil"
    /\ last.n >= 1
    /\ size > last.n

----------------------------------------------------------------------------
\* C23: whatever background tasks are pending or running, a caller inside
\* Write, ForceRotate or Close can take its next step, and a later call can
\* start when no caller holds rw.mu.
C23_NeverBlocked ==
    \A p \in Procs :
        /\ pc[p] # "idle" => ENABLED SinkSteps(p)
        /\ (pc[p] = "idle" /\ mu = NoProc /\ nOps < MaxOps) => ENABLED Call(p)

----------------------------------------------------------------------------
\* C24: the rename step of a rotation starts a compressor exactly when it
\* renamed basePath and compress is set, and starts it on the name the file
\* was renamed to; no other step starts a compressor; and with compress
\* off no .gz file exists.
C24_DispatchIff ==
    [][/\ \A p \in Procs :
            (pc[p] = "r_rename" /\ pc'[p] # "r_rename")
               => IF dir' # dir /\ cfg.compress
                  THEN \E ts \in Stamps :
                          /\ dir' = [dir EXCEPT ![Bak(ts)] = dir[Base], ![Base] = 0]
                          /\ comp' = comp (+) SetToBag({NewCompress(ts)})
                  ELSE comp' = comp
       /\ (\A p \in Procs : pc[p] # "r_rename")
            => \A ts \in Stamps :
                  CopiesIn(NewCompress(ts), comp') <= CopiesIn(NewCompress(ts), comp)
       /\ ~cfg.compress => \A ts \in Stamps : dir'[Gz(ts)] = 0]_vars

\* Two rotations of different seconds: the compressor of the second one is
\* pending on the backup of that second.
C24_Witness ==
    /\ cfg.compress /\ mu = NoProc /\ nOps >= 2
    /\ \E ts \in Stamps :
          /\ ts >= 1
          /\ Exists(Bak(ts))
          /\ BagIn(NewCompress(ts), comp)
          /\ ~BagIn(NewCompress(0), comp)

----------------------------------------------------------------------------
\* C25: a Write whose payload alone is over maxSize, on a sink without
\* backups, that returns nil has rotated once: the file at basePath holds
\* the payload and nothing else, and exactly one backup exists, under the
\* name of the current second, which is the file that was active before.
C25_OversizeWrite ==
    [][\A p \in Procs :
         (/\ op[p].kind = "Write" /\ cfg.maxSize > 0 /\ op[p].len > cfg.maxSize
          /\ op[p].before = {}
          /\ Returns(p) /\ last'.err = "nil")
            => /\ op[p].renamed
               /\ dir'[Base] # 0
               /\ inodes'[dir'[Base]].data = Payload(op[p].id, op[p].len)
               /\ size' = op[p].len
               /\ Linked' = {Bak(Format(now))}
               /\ dir'[Bak(Format(now))] = op[p].bakIno
               /\ inodes'[op[p].bakIno] = inodes[op[p].bakIno]]_vars

\* Such a Write has returned: the file holds its payload, over maxSize, and
\* the one backup holds the byte written before.
C25_Witness ==
    /\ cfg.maxSize > 0 /\ mu = NoProc
    /\ last.kind = "Write" /\ last.err = "nil" /\ last.renamed
    /\ last.len > cfg.maxSize
    /\ ActiveLen = last.len /\ size = last.len
    /\ \E ts \in Stamps : Linked = {Bak(ts)} /\ Len(DataAt(Bak(ts))) >= 1

----------------------------------------------------------------------------
\* basePath.<ts> sorts before basePath.<ts>.gz, and both before every name
\* of a later second.
NameBefore(q, r) == q.ts < r.ts \/ (q.ts = r.ts /\ ~IsGz(q) /\ IsGz(r))

\* C26: of two backup files, the one whose name sorts first was not
\* modified after the other.
C26_OrdersAgree ==
    \A q, r \in Linked :
        NameBefore(q, r) => inodes[dir[q]].mtime <= inodes[dir[r]].mtime

----------------------------------------------------------------------------
\* C27: a pass in its removal loop is at one of its excess files; after a
\* removal, failed or not, it is at the next excess file, or has ended when
\* that was the last one; and its next removal can always be attempted.
C27_RemovalGoesOn ==
    [][\A t \in BagToSet(clean) :
         t.pc = "g_remove"
            => /\ 1 <= t.i /\ t.i <= Excess(t)
               /\ ENABLED CleanupRemove(t, {})
               /\ CopiesIn(t, clean') < CopiesIn(t, clean)
                     => clean' = (IF t.i < Excess(t)
                                  THEN Moved(clean, t, [t EXCEPT !.i = t.i + 1])
                                  ELSE Ended(clean, t))]_vars

\* After one rotation a pass has gone on to its second excess file although
\* the removal of the first one failed: that file is still there.
C27_Witness ==
    /\ nOps = 1 /\ mu = NoProc /\ faults = 1
    /\ \E t \in BagToSet(clean) :
          /\ t.pc = "g_remove" /\ t.i = 2
          /\ Excess(t) >= 2
          /\ Exists(t.matches[1])

----------------------------------------------------------------------------
\* The fields of logger i, and how often field f is among the fields fs.
ContextOf(i) == Fields(arrays, loggers[i].context)
Count(fs, f) == Cardinality({j \in 1..Len(fs) : fs[j] = f})

\* C28: a step that derives a logger leaves every logger there is with the
\* fields it had.
C28_ContextFixed ==
    [][\A i \in 1..Len(loggers) :
         /\ loggers'[i] = loggers[i]
         /\ Fields(arrays', loggers'[i].context) = ContextOf(i)]_vars

\* A logger with two fields has a child made by WithoutContext, which lost
\* one of them, and a child made by WithContext, which has a third one.
C28_Witness ==
    \E i, j, k \in 1..Len(loggers) :
        /\ Len(ContextOf(i)) = 2
        /\ loggers[j].parent = i /\ loggers[j].by = "WithoutContext"
        /\ Len(ContextOf(j)) = 1
        /\ loggers[k].parent = i /\ loggers[k].by = "WithContext"
        /\ Len(ContextOf(k)) = 3

\* C29: the logger WithoutContext(key) returns has no field with the key,
\* and has every field of its parent with another key, as often as the
\* parent has it.
C29_KeyRemoved ==
    [][(Len(loggers') = Len(loggers) + 1
          /\ loggers'[Len(loggers')].by = "WithoutContext")
         => LET child == loggers'[Len(loggers')]
                got == Fields(arrays', child.context)
                had == ContextOf(child.parent)
            IN /\ \A j \in 1..Len(got) : got[j].Key # child.key
               /\ \A k \in Keys \ {child.key}, v \in Values :
                     Count(got, ContextField(k, v)) = Count(had, ContextField(k, v))]_vars

\* The time trigger of Write: backupInterval > 0 and more than backupInterval
\* has passed since lastRotate.
TimeDue(t, lr) == cfg.backupInterval > 0 /\ t - lr > cfg.backupInterval

\* C31: lastRotate changes only in the step that ends a rotation with a
\* successful reopen, and that step sets it to the current time, also when the
\* rename was skipped because basePath was missing; a rotation that returns an
\* error (from close, rename or reopen) leaves it unchanged; it never
\* decreases; and after a failed rotation of a Write that was due by time the
\* time trigger is still due, so the next Write goes into rotate again.
C31_LastRotate ==
    [][/\ lastRotate' >= lastRotate
       /\ lastRotate' # lastRotate
             => \E p \in Procs : pc[p] = "r_reopen" /\ RotationDone(p)
       /\ \A p \in Procs :
            /\ (pc[p] = "r_reopen" /\ RotationDone(p)) => lastRotate' = now
            /\ (pc[p] \in RotateLabels /\ Returns(p) /\ last'.err # "nil")
                  => /\ lastRotate' = lastRotate
                     /\ (op[p].kind = "Write" /\ TimeDue(now, lastRotate))
                           => TimeDue(now', lastRotate')
            /\ (pc[p] = "w_open" /\ pc'[p] \notin {"w_open", "idle"}
                   /\ TimeDue(now, lastRotate))
                  => pc'[p] = "r_close"]_vars

\* A rotation that skipped the rename of a missing basePath has succeeded and
\* moved lastRotate forward to the current time.
C31_Witness ==
    /\ last.kind = "ForceRotate" /\ last.err = "nil" /\ ~last.renamed
    /\ lastRotate = now /\ now > 0

\* C32: no step of a rotation overwrites or destroys a backup: every backup
\* on disk before the step is on disk after it, with the content it had, also
\* when the rotation runs in the second of an earlier one and when it follows
\* a rotation that failed at reopen.
C32_BackupsKept ==
    [][\A p \in Procs :
         (pc[p] \in RotateLabels /\ pc'[p] # pc[p])
            => \A q \in Linked :
                  /\ dir'[q] # 0
                  /\ inodes'[dir'[q]].data = DataAt(q)]_vars

\* The labels of a Write before its rw.file.Write: the lazy open with the
\* rotation check, and the steps of rotate.
BeforeWrite == {"w_open"} \cup RotateLabels

\* No file, linked or not, holds a byte of call id.
Absent(id) == \A i \in 1..Len(inodes) : Occurrences(inodes[i].data, id) = 0

\* C34: a Write that returns before its rw.file.Write (the lazy open failed,
\* or rotate failed) returns n = 0 and an error, and no file holds a byte of
\* its payload; and no step of a Write before rw.file.Write raises size, so
\* size at such a return is at most what it was when the call took the lock.
C34_FailsClean ==
    [][\A p \in Procs :
         (op[p].kind = "Write" /\ pc[p] \in BeforeWrite)
            => /\ size' <= size
               /\ Absent(op[p].id)
               /\ Returns(p)
                     => /\ last'.kind = "Write"
                        /\ last'.n = 0
                        /\ last'.err # "nil"
                        /\ Absent(op[p].id)'
                        /\ acked'[op[p].id] = 0]_vars

\* A Write opened the file lazily, went into rotate and failed there: it
\* returned 0 and the error.
C34_Witness ==
    /\ last.kind = "Write" /\ last.wasNil
    /\ last.n = 0 /\ last.err \in {"ECLOSE", "ERENAME"}

\* C35: the sink starts with an open handle on basePath and lastRotate at
\* the construction time; the handle becomes absent only in Close or in the
\* close step of rotate; a call that returns leaving no handle is a Close, or
\* returns an error from rotate, or returns an error having found no handle;
\* and a ForceRotate that found no handle and returns nil leaves an open
\* handle on a basePath created by that rotation, empty, with size 0.
C35_Lifecycle ==
    /\ (file.open /\ file.ino = dir[Base] /\ lastRotate = now)
    /\ [][/\ (file # NoHandle /\ file' = NoHandle)
                => \E p \in Procs : pc[p] \in {"c_close", "r_close"} /\ pc'[p] # pc[p]
          /\ \A p \in Procs :
               /\ (Returns(p) /\ file' = NoHandle)
                     => \/ op[p].kind = "Close"
                        \/ (last'.err # "nil"
                              /\ (pc[p] \in RotateLabels \/ op[p].wasNil))
               /\ (Returns(p) /\ op[p].kind = "ForceRotate" /\ op[p].wasNil
                      /\ last'.err = "nil")
                     => /\ file'.open
                        /\ file'.ino = dir'[Base]
                        /\ Len(inodes') = Len(inodes) + 1
                        /\ file'.ino = Len(inodes')
                        /\ inodes'[file'.ino].data = <<>>
                        /\ size' = 0]_vars

\* Close, then a ForceRotate that returns nil: the sink holds an open handle
\* again and no Write was ever called.
C35_Witness ==
    /\ nOps = 2 /\ faults = 0
    /\ last.kind = "ForceRotate" /\ last.wasNil /\ last.err = "nil"
    /\ file.open /\ Exists(Base)

\* C33: every call that took rw.mu returns; the step that returns releases
\* rw.mu, and rw.mu is released by no other step; rw.mu is taken only by the
\* first step of a call, when it is free, so neither rotate nor a background
\* task takes it.
C33_DeadlockFree ==
    /\ \A p \in Procs : (pc[p] # "idle") ~> (pc[p] = "idle")
    /\ [][/\ \A p \in Procs : Returns(p) => (mu = p /\ mu' = NoProc)
          /\ (mu # NoProc /\ mu' # mu)
                => (mu' = NoProc /\ \E p \in Procs : Returns(p))
          /\ (mu = NoProc /\ mu' # NoProc)
                => \E p \in Procs :
                      /\ mu' = p /\ pc[p] = "idle"
                      /\ pc'[p] = Entry(op'[p].kind)]_vars

\* The TraceFunction calls that have returned a closure not yet called, and
\* among them those that went up a nesting level.
Pending == {i \in 1..Len(traces) : traces[i].pc \in {"empty", "exit"}}
Open == {i \in Pending : traces[i].pc = "exit"}
Exited == {i \in 1..Len(traces) : traces[i].pc = "exited"}
Balanced == \A i \in 1..Len(traces) : traces[i].pc \in {"exited", "skipped"}

\* C36 as stated: nestingLevel is never negative, it is above its initial
\* value by the number of traces entered while traceEnabled was set and not
\* yet exited, and when every closure has been called it is at its initial
\* value.
C36_CountsEnabled ==
    /\ logger.nestingLevel >= 0
    /\ logger.nestingLevel
          = nest0 + Cardinality({i \in Pending : traces[i].enabled})
    /\ Balanced => logger.nestingLevel = nest0

\* C36, amended: nestingLevel is never negative, it is above its initial
\* value by the number of traces entered while tracing was in effect
\* (traceEnabled set and the level at DebugLevel) and not yet exited, and
\* when every closure has been called it is at its initial value, whatever
\* EnableTrace, DisableTrace and SetLevel calls came in between.
C36_Nesting ==
    /\ logger.nestingLevel >= 0
    /\ logger.nestingLevel = nest0 + Cardinality(Open)
    /\ Balanced => logger.nestingLevel = nest0

\* A trace is open and another has been exited; tracing was switched off and
\* the level raised after the open one was entered: the nesting level still
\* counts it.
C36_Witness ==
    /\ Cardinality(Open) = 1 /\ Cardinality(Exited) >= 1
    /\ ~logger.traceEnabled /\ logger.level > DebugLevel
    /\ logger.nestingLevel = nest0 + 1

\* C37: the step that applies WithRotateWriter leaves an output on the
\* logger; when NewRotateWriter failed the output is os.Stderr, no writer
\* was made and the closer is as it was (none, on a logger that had none);
\* else a new writer was made, open, it is the output, and the closer is
\* the one that closes it. Calling the closer closes that writer and
\* touches no other.
C37_RotateOption ==
    [][/\ (applied' # applied
            /\ applied'[Len(applied')].opt = "WithRotateWriter")
          => /\ logger'.out # Writer("nil")
             /\ IF applied'[Len(applied')].err # "nil"
                THEN /\ logger'.out = Writer("os.Stderr")
                     /\ logger'.closer = logger.closer
                     /\ writers' = writers
                ELSE /\ writers' = Append(writers, "open")
                     /\ logger'.out = Rotating(Len(writers'))
                     /\ logger'.closer = Len(writers')
       /\ (applied' = applied /\ writers' # writers)
          => /\ logger.closer \in 1..Len(writers)
             /\ writers' = [writers EXCEPT ![logger.closer] = "closed"]]_vars

\* A logger got WithOutput and then WithRotateWriter with a file that cannot
\* be opened: it writes to os.Stderr and has no closer.
C37_Witness ==
    /\ Len(applied) = 2
    /\ applied[1].opt = "WithOutput" /\ applied[2].opt = "WithRotateWriter"
    /\ applied[2].err # "nil"
    /\ logger.out = Writer("os.Stderr") /\ logger.closer = 0

====
